---- MODULE Spec2Model ----
(***************************************************************************)
(* Trace-correlation layer of otel-go-dbm: the SQL correlation annotator   *)
(* (addDatadogSQLComment, main.go) and the trace-context log decorator     *)
(* (TraceHandler, package log) through which the annotator's own log       *)
(* records pass.  Texts are TLA+ strings handled with Len, \o and SubSeq,   *)
(* one character per position, so that formatting, escaping and splitting  *)
(* are computed character by character as the Go code computes them.       *)
(***************************************************************************)
EXTENDS Integers, Sequences, FiniteSets, TLC

\* The annotator and the records it logs.
VARIABLES environ, ctx, stmt, query, result, calls, logSink

\* The log decorator: the TraceHandler values built so far, the last
\* NewTraceHandler and Handle calls, and the calls the last Handle made to the
\* wrapped handler.
VARIABLES thHandlers, lastNew, lastHandle, sinkCalls

\* The span processor: the spans started so far, the processor value and the
\* last call the SDK made to it.
VARIABLES spans, proc, lastProc

\* Concurrent requests: each request's context, statement and position, the
\* span its annotator call read, what the call returned, the records logged
\* for it, and the process environment.
VARIABLES reqCtx, reqStmt, reqPc, reqSpan, reqOut, reqLogs, procEnv

\* The HTTP handlers: the request being served, what serving it did, in
\* order, and whether main could open the direct database connection.
VARIABLES hReq, hEvents, dbDirectInitialized

annVars == <<environ, ctx, stmt, query, result, calls, logSink>>

logVars == <<thHandlers, lastNew, lastHandle, sinkCalls>>

spanVars == <<spans, proc, lastProc>>

concVars == <<reqCtx, reqStmt, reqPc, reqSpan, reqOut, reqLogs, procEnv>>

handVars == <<hReq, hEvents, dbDirectInitialized>>

vars == <<annVars, logVars, spanVars, concVars, handVars>>

\* The variables each part of the model leaves alone.
exceptAnn == <<logVars, spanVars, concVars, handVars>>

exceptLog == <<annVars, spanVars, concVars, handVars>>

exceptSpans == <<annVars, logVars, concVars, handVars>>

exceptConc == <<annVars, logVars, spanVars, handVars>>

exceptHand == <<annVars, logVars, spanVars, concVars>>

\* A value that stands for "no call yet" in the last-call variables.
None == [kind |-> "none"]

LogIdle ==
    /\ thHandlers = << >>
    /\ lastNew = None
    /\ lastHandle = None
    /\ sinkCalls = << >>

\* sqlSpanProcessorWrapper is a struct without fields.
ProcessorValue == << >>

SpansIdle ==
    /\ spans = << >>
    /\ proc = ProcessorValue
    /\ lastProc = None

\* No request is being served.
ConcIdle ==
    /\ reqCtx = << >>
    /\ reqStmt = << >>
    /\ reqPc = << >>
    /\ reqSpan = << >>
    /\ reqOut = << >>
    /\ reqLogs = << >>
    /\ procEnv = << >>

\* No request has been handled.
HandIdle ==
    /\ hReq = None
    /\ hEvents = << >>
    /\ dbDirectInitialized = FALSE

IdleExceptAnn == LogIdle /\ SpansIdle /\ ConcIdle /\ HandIdle

(***************************************************************************)
(* Bounds of the model.                                                    *)
(***************************************************************************)
\* Longest chain of annotator calls applied to one statement.
MaxCalls == 2

(***************************************************************************)
(* Go's strings package, on TLA+ strings.                                  *)
(***************************************************************************)
CharAt(s, i) == SubSeq(s, i, i)

HasPrefix(s, prefix) ==
    /\ Len(s) >= Len(prefix)
    /\ SubSeq(s, 1, Len(prefix)) = prefix

HasSuffix(s, suffix) ==
    /\ Len(s) >= Len(suffix)
    /\ SubSeq(s, Len(s) - Len(suffix) + 1, Len(s)) = suffix

TrimPrefix(s, prefix) ==
    IF HasPrefix(s, prefix) THEN SubSeq(s, Len(prefix) + 1, Len(s)) ELSE s

\* Positions at which sub occurs in s.
Occurrences(s, sub) ==
    { i \in 1..(Len(s) - Len(sub) + 1) : SubSeq(s, i, i + Len(sub) - 1) = sub }

\* Index of the first occurrence of sub in s at or after position from, 0 if none.
IndexFrom(s, sub, from) ==
    LET hits == { i \in Occurrences(s, sub) : i >= from }
    IN  IF hits = {} THEN 0 ELSE CHOOSE i \in hits : \A j \in hits : i <= j

Index(s, sub) == IndexFrom(s, sub, 1)

Contains(s, sub) == Index(s, sub) # 0

\* strings.Split(s, sep) for a non-empty separator: always at least one part.
RECURSIVE Split(_, _)
Split(s, sep) ==
    LET i == Index(s, sep)
    IN  IF i = 0 THEN <<s>>
        ELSE <<SubSeq(s, 1, i - 1)>> \o Split(SubSeq(s, i + Len(sep), Len(s)), sep)

RECURSIVE Join(_, _)
Join(parts, sep) ==
    IF Len(parts) = 0 THEN ""
    ELSE IF Len(parts) = 1 THEN parts[1]
    ELSE parts[1] \o sep \o Join(Tail(parts), sep)

\* strings.ReplaceAll(s, old, new) for a non-empty old: the pieces between
\* the occurrences of old, put together again with new between them.
ReplaceAll(s, old, new) == Join(Split(s, old), new)

(***************************************************************************)
(* Trace and span identifiers (go.opentelemetry.io/otel/trace): a TraceID  *)
(* is 16 bytes, a SpanID 8 bytes, each with a String method giving its     *)
(* lowercase hex encoding.                                                 *)
(***************************************************************************)
HexDigits == "0123456789abcdef"

HexByte(b) == CharAt(HexDigits, (b \div 16) + 1) \o CharAt(HexDigits, (b % 16) + 1)

\* hex.EncodeToString over a sequence of bytes.
RECURSIVE EncodeToString(_)
EncodeToString(bytes) ==
    IF Len(bytes) = 0 THEN ""
    ELSE HexByte(Head(bytes)) \o EncodeToString(Tail(bytes))

\* TraceID.String / SpanID.String.
IDString(id) == EncodeToString(id)

\* ASCII code of a lowercase hex digit character.
AsciiCode(c) ==
    LET i == Index(HexDigits, c)
    IN  IF i <= 10 THEN 48 + (i - 1) ELSE 97 + (i - 11)

\* fmt's %x applied to a string: the hex encoding of the string's bytes.
RECURSIVE FmtSx(_)
FmtSx(s) ==
    IF Len(s) = 0 THEN ""
    ELSE HexByte(AsciiCode(CharAt(s, 1))) \o FmtSx(SubSeq(s, 2, Len(s)))

RECURSIVE PadLeft(_, _, _)
PadLeft(s, width, pad) ==
    IF Len(s) >= width THEN s ELSE PadLeft(pad \o s, width, pad)

\* fmt.Sprintf("%0<width>x", id) for an id type that has a String method:
\* fmt's handleMethods sees a Stringer under the verb x, calls String() and
\* formats the returned string with %x; the width only pads shorter output.
SprintfPaddedHex(width, id) == PadLeft(FmtSx(IDString(id)), width, "0")

ZeroBytes(n) == [i \in 1..n |-> 0]

LowBytes(n, v) == [i \in 1..n |-> IF i = n THEN v ELSE 0]

TraceIDs ==
    { ZeroBytes(16),
      LowBytes(16, 1),
      <<75, 249, 47, 53, 119, 179, 77, 166, 163, 206, 146, 157, 14, 14, 71, 54>> }

SpanIDs ==
    { ZeroBytes(8),
      LowBytes(8, 2),
      <<0, 240, 103, 170, 11, 169, 2, 183>> }

\* SpanContext.IsValid: non-zero trace id and non-zero span id.
IsValid(sc) == sc.traceID # ZeroBytes(16) /\ sc.spanID # ZeroBytes(8)

\* What trace.SpanFromContext(ctx) can return: the span's context, its sampled
\* flag and whether the span is recording.  A recording span is one the SDK
\* started, so its ids are non-zero; a span that is not recording is the no-op
\* span, a span context received from a remote caller, or a span the sampler
\* dropped; a sampler decision "record only" gives a recording, not sampled span.
Contexts ==
    { c \in [traceID : TraceIDs, spanID : SpanIDs, sampled : BOOLEAN, recording : BOOLEAN] :
        c.recording => IsValid(c) }

(***************************************************************************)
(* Process environment and getEnv.  An unset variable reads as "".         *)
(***************************************************************************)
EnvKeys == {"OTEL_SERVICE_NAME", "OTEL_RESOURCE_ATTRIBUTES", "DD_ENV"}

ServiceNameValues == {"", "svc", "o'b", "a*/b", "c\\"}

ResourceAttrValues ==
    { "",
      "deployment.environment=staging,foo=bar",
      "foo=bar",
      "foo=bar,deployment.environment=prod",
      "deployment.environment=",
      "deployment.environment=it's" }

DDEnvValues == {"", "prod", "q'a"}

Environs ==
    { e \in [EnvKeys -> ServiceNameValues \cup ResourceAttrValues \cup DDEnvValues] :
        /\ e["OTEL_SERVICE_NAME"] \in ServiceNameValues
        /\ e["OTEL_RESOURCE_ATTRIBUTES"] \in ResourceAttrValues
        /\ e["DD_ENV"] \in DDEnvValues }

Getenv(e, key) == e[key]

\* getEnv without its default.
getEnv_noDefault(e, key, defaultValue) == Getenv(e, key)

getEnv(e, key, defaultValue) ==
    IF Getenv(e, key) # "" THEN Getenv(e, key) ELSE defaultValue

(***************************************************************************)
(* package log: TraceHandler wrapping the JSON handler that writes to      *)
(* stdout.  A record is a level, a message and an ordered attribute list.  *)
(***************************************************************************)
DefaultTraceIDKey == "trace_id"

DefaultSpanIDKey == "span_id"

DefaultTraceSampledKey == "trace_sampled"

\* The *TraceHandlerConfig argument: nil, or a struct with three key names.
NoConfig == [nil |-> TRUE, TraceIDKey |-> "", SpanIDKey |-> "", TraceSampledKey |-> ""]

\* NewTraceHandler taking the caller's keys only when all three are set.
NewTraceHandler_allOrNothing(config) ==
    IF ~config.nil /\ config.TraceIDKey # "" /\ config.SpanIDKey # ""
                   /\ config.TraceSampledKey # ""
    THEN [ TraceIDKey      |-> config.TraceIDKey,
           SpanIDKey       |-> config.SpanIDKey,
           TraceSampledKey |-> config.TraceSampledKey ]
    ELSE [ TraceIDKey      |-> DefaultTraceIDKey,
           SpanIDKey       |-> DefaultSpanIDKey,
           TraceSampledKey |-> DefaultTraceSampledKey ]

\* NewTraceHandler: the config of the new handler.  It starts from the
\* defaults; with a non-nil argument each key that is set replaces its default.
NewTraceHandler(config) ==
    [ TraceIDKey      |-> IF ~config.nil /\ config.TraceIDKey # ""
                          THEN config.TraceIDKey ELSE DefaultTraceIDKey,
      SpanIDKey       |-> IF ~config.nil /\ config.SpanIDKey # ""
                          THEN config.SpanIDKey ELSE DefaultSpanIDKey,
      TraceSampledKey |-> IF ~config.nil /\ config.TraceSampledKey # ""
                          THEN config.TraceSampledKey ELSE DefaultTraceSampledKey ]

Attr(k, v) == [key |-> k, val |-> v]

\* TraceHandler.Handle without the sampled attribute.
TraceHandlerHandle_noSampled(h, sc, r) ==
    IF IsValid(sc)
    THEN [r EXCEPT !.attrs = @ \o << Attr(h.TraceIDKey, IDString(sc.traceID)),
                                     Attr(h.SpanIDKey, IDString(sc.spanID)) >>]
    ELSE r

\* TraceHandler.Handle: the record that reaches the wrapped handler.
TraceHandlerHandle(h, sc, r) ==
    IF IsValid(sc)
    THEN [r EXCEPT !.attrs = @ \o << Attr(h.TraceIDKey, IDString(sc.traceID)),
                                     Attr(h.SpanIDKey, IDString(sc.spanID)),
                                     Attr(h.TraceSampledKey, sc.sampled) >>]
    ELSE r

\* initLogger: the default logger is a TraceHandler built with a nil config.
defaultHandler == NewTraceHandler(NoConfig)

\* slog levels, and the threshold initLogger gives the JSON handler.
LevelInfo == 0

LevelWarn == 4

HandlerLevel_warn == LevelWarn

HandlerLevel == LevelInfo

\* Handler.Enabled of the JSON handler, which TraceHandler inherits by embedding.
Enabled(level) == level >= HandlerLevel

\* slog.InfoContext / slog.WarnContext on the default logger: the records that
\* reach the JSON handler, none when the level is below its threshold.
slogContext(sc, level, msg, attrs) ==
    IF Enabled(level)
    THEN << TraceHandlerHandle(defaultHandler, sc,
                               [level |-> level, msg |-> msg, attrs |-> attrs]) >>
    ELSE << >>

(***************************************************************************)
(* addDatadogSQLComment and escapeSQLCommentValue (main.go).               *)
(***************************************************************************)
escapeSQLCommentValue(s) == ReplaceAll(s, "'", "\\'")

\* The loop over the comma-separated parts: the first part that starts with
\* deployment.environment= gives the value; with no such part env keeps the
\* value it had before the loop.
RECURSIVE ScanParts(_, _)
ScanParts(parts, env) ==
    IF Len(parts) = 0 THEN env
    ELSE IF HasPrefix(Head(parts), "deployment.environment=")
         THEN TrimPrefix(Head(parts), "deployment.environment=")
         ELSE ScanParts(Tail(parts), env)

\* ResolveEnv with the DD_ENV fallback left out.
ResolveEnv_noOverride(e) ==
    LET env == getEnv(e, "OTEL_RESOURCE_ATTRIBUTES", "")
    IN  IF env = "" THEN "advent"
        ELSE ScanParts(Split(env, ","), env)

\* Lines 291-307: env starts as the raw OTEL_RESOURCE_ATTRIBUTES string.
ResolveEnv(e) ==
    LET env == getEnv(e, "OTEL_RESOURCE_ATTRIBUTES", "")
    IN  IF env = "" THEN getEnv(e, "DD_ENV", "advent")
        ELSE ScanParts(Split(env, ","), env)

\* Lines 310-317: the flag is the literal 01.
Traceparent(sc) ==
    LET traceIDStr == SprintfPaddedHex(32, sc.traceID)
        spanIDStr  == SprintfPaddedHex(16, sc.spanID)
    IN  "00-" \o traceIDStr \o "-" \o spanIDStr \o "-01"

Pair(key, value) == key \o "='" \o escapeSQLCommentValue(value) \o "'"

\* CommentParts with the dde and ddps appends exchanged.
CommentParts_swapped(dbServiceName, env, serviceName, version, traceparent) ==
    LET p1 == IF dbServiceName # "" THEN <<Pair("dddbs", dbServiceName)>> ELSE <<>>
        p2 == IF serviceName # "" THEN p1 \o <<Pair("ddps", serviceName)>> ELSE p1
        p3 == IF env # "" THEN p2 \o <<Pair("dde", env)>> ELSE p2
        p4 == IF version # "" THEN p3 \o <<Pair("ddpv", version)>> ELSE p3
        p5 == IF traceparent # "" THEN p4 \o <<Pair("traceparent", traceparent)>> ELSE p4
    IN  p5

\* Lines 321-336: one append per non-empty value, in source order.
CommentParts(dbServiceName, env, serviceName, version, traceparent) ==
    LET p1 == IF dbServiceName # "" THEN <<Pair("dddbs", dbServiceName)>> ELSE <<>>
        p2 == IF env # "" THEN p1 \o <<Pair("dde", env)>> ELSE p1
        p3 == IF serviceName # "" THEN p2 \o <<Pair("ddps", serviceName)>> ELSE p2
        p4 == IF version # "" THEN p3 \o <<Pair("ddpv", version)>> ELSE p3
        p5 == IF traceparent # "" THEN p4 \o <<Pair("traceparent", traceparent)>> ELSE p4
    IN  p5

\* Line 343, with a check that leaves an already annotated statement alone.
Prepend_dedup(comment, q) ==
    IF HasPrefix(q, comment) THEN q ELSE comment \o " " \o q

\* Line 343: result := comment + " " + query.
Prepend(comment, q) == comment \o " " \o q

\* span.IsRecording() of the span found in the context (line 282).
IsRecording_always(sc) == TRUE

IsRecording(sc) == sc.recording

\* The whole function: its return value and the records it sends to slog.
addDatadogSQLComment(e, sc, q) ==
    LET called == slogContext(sc, LevelInfo, "addDatadogSQLComment called",
                              << Attr("query_length", Len(q)) >>)
    IN  IF ~IsRecording(sc)
        THEN [ ret     |-> q,
               records |-> called \o
                           slogContext(sc, LevelWarn,
                               "No active span found, returning query without comment",
                               << >>) ]
        ELSE LET serviceName   == getEnv(e, "OTEL_SERVICE_NAME", "otel-go-dbm")
                 version       == "1.0.0"
                 dbServiceName == serviceName
                 env           == ResolveEnv(e)
                 traceparent   == Traceparent(sc)
                 commentParts  == CommentParts(dbServiceName, env, serviceName,
                                               version, traceparent)
             IN  IF Len(commentParts) = 0
                 THEN [ret |-> q, records |-> called]
                 ELSE LET comment == "/*" \o Join(commentParts, ",") \o "*/"
                          res     == Prepend(comment, q)
                      IN  [ ret     |-> res,
                            records |-> called \o
                                        slogContext(sc, LevelInfo, "Added Datadog SQL comment",
                                            << Attr("comment", comment),
                                               Attr("query_length", Len(res)) >>) ]

(***************************************************************************)
(* State machine.  A request arrives with its trace context and a          *)
(* statement; the annotator is called on the statement, and possibly again *)
(* on its own output.  logSink holds the records written for the request.  *)
(***************************************************************************)
Statements == {"", "SELECT 1", "/*x*/ SELECT 'a'"}

TypeOK ==
    /\ environ \in Environs
    /\ ctx \in Contexts
    /\ stmt \in Statements
    /\ calls \in 0..MaxCalls

Init ==
    /\ environ \in Environs
    /\ ctx \in Contexts
    /\ stmt \in Statements
    /\ query = stmt
    /\ result = stmt
    /\ calls = 0
    /\ logSink = << >>
    /\ IdleExceptAnn

\* A handler's single call: queryWithComment := addDatadogSQLComment(ctx, query).
Annotate ==
    /\ calls = 0
    /\ LET out == addDatadogSQLComment(environ, ctx, stmt)
       IN  /\ query' = stmt
           /\ result' = out.ret
           /\ logSink' = logSink \o out.records
    /\ calls' = 1
    /\ UNCHANGED <<environ, ctx, stmt>>
    /\ UNCHANGED exceptAnn

\* A caller that annotates an already annotated statement again.
ReAnnotate ==
    /\ calls >= 1
    /\ calls < MaxCalls
    /\ LET out == addDatadogSQLComment(environ, ctx, result)
       IN  /\ query' = result
           /\ result' = out.ret
           /\ logSink' = logSink \o out.records
    /\ calls' = calls + 1
    /\ UNCHANGED <<environ, ctx, stmt>>
    /\ UNCHANGED exceptAnn

\* The next request: a fresh trace context and statement.
NewRequest ==
    /\ calls >= 1
    /\ \E c \in Contexts, s \in Statements :
          /\ ctx' = c
          /\ stmt' = s
          /\ query' = s
          /\ result' = s
    /\ calls' = 0
    /\ logSink' = << >>
    /\ UNCHANGED environ
    /\ UNCHANGED exceptAnn

Next == Annotate \/ ReAnnotate \/ NewRequest

Spec == Init /\ [][Next]_vars

(***************************************************************************)
(* Reading the annotator's output.  After a call, query is the statement   *)
(* passed in and result the string returned.                               *)
(***************************************************************************)
Called == calls >= 1

CommentAdded == Called /\ result # query

\* The text in front of " " \o query in result.
BlockOf(res, q) == SubSeq(res, 1, Len(res) - Len(q) - 1)

PrependedTo(res, q) ==
    /\ Len(res) >= Len(q) + 1
    /\ HasSuffix(res, " " \o q)

\* One closed comment: opens with /*, and its first */ is its last two characters.
WellFormedBlock(b) ==
    /\ Len(b) >= 4
    /\ HasPrefix(b, "/*")
    /\ IndexFrom(b, "*/", 3) = Len(b) - 1

LastIndex(s, sub) ==
    LET hits == Occurrences(s, sub)
    IN  IF hits = {} THEN 0 ELSE CHOOSE i \in hits : \A j \in hits : i >= j

\* The value of the traceparent pair, the last pair of the block.
EmbeddedTraceparent(b) ==
    LET i == LastIndex(b, "traceparent='")
    IN  SubSeq(b, i + Len("traceparent='"), Len(b) - 3)

IsLowerHex(s) == \A i \in 1..Len(s) : Contains(HexDigits, CharAt(s, i))

\* The attribute values a log record carries under a key.
AttrValues(r, k) == { r.attrs[i].val : i \in { j \in 1..Len(r.attrs) : r.attrs[j].key = k } }

(***************************************************************************)
(* Claims about the annotator.                                             *)
(***************************************************************************)

\* C1: under a context with no valid or no active (recording) trace the
\* annotator returns exactly the statement it was given.
C1_NoTraceReturnsStatement ==
    (Called /\ (~IsValid(ctx) \/ ~ctx.recording)) => result = query

C1_Witness ==
    /\ Called
    /\ ~IsValid(ctx)
    /\ query = "SELECT 1"
    /\ result = "SELECT 1"

\* C2 as stated: for every valid context with non-zero ids, whatever its
\* sampling or recording status, the result is one well-formed comment block,
\* one space, then the statement unchanged.
C2_ValidContextAnnotates ==
    (Called /\ IsValid(ctx)) =>
        /\ PrependedTo(result, query)
        /\ WellFormedBlock(BlockOf(result, query))

C4_IdWidths ==
    /\ CommentAdded =>
        LET tp     == EmbeddedTraceparent(BlockOf(result, query))
            fields == Split(tp, "-")
        IN  /\ Len(fields) = 4
            /\ Len(fields[2]) = 32 /\ IsLowerHex(fields[2])
            /\ Len(fields[3]) = 16 /\ IsLowerHex(fields[3])
            /\ (ctx.traceID = LowBytes(16, 1) /\ ctx.spanID = LowBytes(8, 2) /\ ctx.sampled)
                 => tp = "00-00000000000000000000000000000001-0000000000000002-01"
    /\ \A i \in 1..Len(logSink) :
          /\ \A v \in AttrValues(logSink[i], DefaultTraceIDKey) : Len(v) = 32 /\ IsLowerHex(v)
          /\ \A v \in AttrValues(logSink[i], DefaultSpanIDKey) : Len(v) = 16 /\ IsLowerHex(v)

\* The head of a comment whose first pairs are dddbs, then dde (left out when
\* its value is empty), then ddps.
HeadWithEnv(serviceName, env) ==
    "/*dddbs='" \o escapeSQLCommentValue(serviceName) \o "',"
    \o (IF env = "" THEN "" ELSE "dde='" \o escapeSQLCommentValue(env) \o "',")
    \o "ddps='"

ServiceName == getEnv(environ, "OTEL_SERVICE_NAME", "otel-go-dbm")

\* C5 as stated: whenever DD_ENV is set, the dde value is DD_ENV's value,
\* whatever OTEL_RESOURCE_ATTRIBUTES holds.
C5_OverrideAlwaysWins ==
    (CommentAdded /\ environ["DD_ENV"] # "") =>
        HasPrefix(result, HeadWithEnv(ServiceName, environ["DD_ENV"]))

\* C5 amended: DD_ENV decides the dde value only when OTEL_RESOURCE_ATTRIBUTES
\* is unset or empty; a non-empty OTEL_RESOURCE_ATTRIBUTES takes precedence and
\* the result is then the one obtained with DD_ENV unset.
C5_OverrideOnlyWithoutResourceAttrs ==
    (CommentAdded /\ environ["DD_ENV"] # "") =>
        IF environ["OTEL_RESOURCE_ATTRIBUTES"] = ""
        THEN HasPrefix(result, HeadWithEnv(ServiceName, environ["DD_ENV"]))
        ELSE result = addDatadogSQLComment([environ EXCEPT !["DD_ENV"] = ""], ctx, query).ret

C5_Witness ==
    /\ CommentAdded
    /\ environ["DD_ENV"] = "q'a"
    /\ environ["OTEL_RESOURCE_ATTRIBUTES"] = ""
    /\ Contains(result, ",dde='q\\'a',")

\* The environment the resource-attribute string names: the value of its first
\* comma-separated pair whose key is deployment.environment, else the default.
NamedEnvironment(attrs) ==
    LET parts == Split(attrs, ",")
        named == { i \in 1..Len(parts) : HasPrefix(parts[i], "deployment.environment=") }
    IN  IF attrs = "" \/ named = {} THEN "advent"
        ELSE LET first == CHOOSE i \in named : \A j \in named : i <= j
             IN  SubSeq(parts[first], Len("deployment.environment=") + 1, Len(parts[first]))

\* C6 as stated: with DD_ENV unset the environment is the value of the
\* deployment.environment pair of OTEL_RESOURCE_ATTRIBUTES, and the default
\* advent when the string is empty or holds only other keys.
C6_EnvFromResourceAttrs ==
    (CommentAdded /\ environ["DD_ENV"] = "") =>
        /\ HasPrefix(result,
               HeadWithEnv(ServiceName, NamedEnvironment(environ["OTEL_RESOURCE_ATTRIBUTES"])))
        /\ environ["OTEL_RESOURCE_ATTRIBUTES"] = "deployment.environment=staging,foo=bar"
             => Contains(result, ",dde='staging',")

\* The pairs a comment is expected to list: the five keys in their fixed
\* order with the values the call resolved.
ExpectedPairs ==
    << <<"dddbs", ServiceName>>,
       <<"dde", ResolveEnv(environ)>>,
       <<"ddps", ServiceName>>,
       <<"ddpv", "1.0.0">>,
       <<"traceparent", Traceparent(ctx)>> >>

HasValue(kv) == kv[2] # ""

\* key='value' for each pair, a comma in front of every pair but the first.
RECURSIVE Listed(_, _)
Listed(kvs, i) ==
    IF i > Len(kvs) THEN ""
    ELSE (IF i > 1 THEN "," ELSE "")
         \o kvs[i][1] \o "='" \o escapeSQLCommentValue(kvs[i][2]) \o "'"
         \o Listed(kvs, i + 1)

\* C7: the comment body lists the non-empty pairs in the order dddbs, dde, ddps,
\* ddpv, traceparent, separated by single commas with none trailing; a pair
\* with an empty value is left out; with every value empty the statement is
\* returned unchanged.
C7_FixedOrderOmitEmpty ==
    (Called /\ ctx.recording) =>
        LET kept == SelectSeq(ExpectedPairs, HasValue)
        IN  IF Len(kept) = 0 THEN result = query
            ELSE /\ result = "/*" \o Listed(kept, 1) \o "*/ " \o query
                 /\ ~HasSuffix(BlockOf(result, query), ",*/")

C7_Witness ==
    /\ CommentAdded
    /\ ResolveEnv(environ) = ""
    /\ HasPrefix(result, "/*dddbs='svc',ddps='svc',ddpv='1.0.0',traceparent='")

\* The even/odd count of backslashes that end s[1..i].
RECURSIVE BackslashRun(_, _)
BackslashRun(s, i) ==
    IF i < 1 \/ CharAt(s, i) # "\\" THEN 0 ELSE 1 + BackslashRun(s, i - 1)

\* In the written form w of a value, the quote at position i is escaped.
QuoteEscaped(w, i) == BackslashRun(w, i - 1) % 2 = 1

\* C8 as stated: every single quote of a value is written as \', the first */
\* of the output is the one the annotator appended, and the closing quote of
\* every value is unescaped.
C8_CommentStaysClosed ==
    CommentAdded =>
        /\ IndexFrom(result, "*/", 3) = Len(result) - Len(query) - 2
        /\ \A i \in 1..Len(ExpectedPairs) :
              LET w == escapeSQLCommentValue(ExpectedPairs[i][2])
              IN  /\ \A j \in 1..Len(w) : CharAt(w, j) = "'" => QuoteEscaped(w, j)
                  /\ ~QuoteEscaped(w \o "'", Len(w) + 1)

C10_NoEffectBesidesReturn ==
    [][ calls' = calls + 1 =>
          /\ UNCHANGED <<environ, ctx, stmt>>
          /\ logSink' = logSink ]_vars

\* C10 amended: a call of the annotator leaves the environment, the context
\* and the statement as they were, and its return value depends only on
\* (statement, context, environment), but it writes exactly two records to the
\* log sink: "addDatadogSQLComment called" with the statement's length, then
\* either the no-active-span warning (statement returned unchanged) or
\* "Added Datadog SQL comment" (comment added).
C10_ReturnPlusTwoLogRecords ==
    [][ calls' = calls + 1 =>
          /\ UNCHANGED <<environ, ctx, stmt>>
          /\ Len(logSink') = Len(logSink) + 2
          /\ SubSeq(logSink', 1, Len(logSink)) = logSink
          /\ LET r1 == logSink'[Len(logSink) + 1]
                 r2 == logSink'[Len(logSink) + 2]
             IN  /\ r1.level = LevelInfo
                 /\ r1.msg = "addDatadogSQLComment called"
                 /\ AttrValues(r1, "query_length") = {Len(query')}
                 /\ IF result' = query'
                    THEN r2.level = LevelWarn
                         /\ r2.msg = "No active span found, returning query without comment"
                    ELSE r2.level = LevelInfo
                         /\ r2.msg = "Added Datadog SQL comment"
                         /\ AttrValues(r2, "comment") = {BlockOf(result', query')}
          /\ (calls >= 1 /\ query' = query) => result' = result ]_vars

C10_Witness ==
    /\ calls = 2
    /\ Len(logSink) = 4
    /\ result # query
    /\ logSink[4].msg = "Added Datadog SQL comment"

(***************************************************************************)
(* The log decorator on its own: TraceHandler values are built by          *)
(* NewTraceHandler, WithAttrs and WithGroup and records are handled        *)
(* through them.  The wrapped handler is the slog JSON handler: it keeps   *)
(* the attributes and groups given to it and reports a write error when    *)
(* its output fails.                                                       *)
(***************************************************************************)
\* Longest list of TraceHandler values built in one run.
MaxHandlers == 3

CustomKeys == [TraceIDKey |-> "tid", SpanIDKey |-> "sid", TraceSampledKey |-> "smp"]

\* The config arguments: nil, a struct with no key set, structs with some
\* keys set and a struct with every key set.
Configs ==
    {NoConfig} \cup
    { [nil |-> FALSE,
       TraceIDKey      |-> IF 1 \in m THEN CustomKeys.TraceIDKey ELSE "",
       SpanIDKey       |-> IF 2 \in m THEN CustomKeys.SpanIDKey ELSE "",
       TraceSampledKey |-> IF 3 \in m THEN CustomKeys.TraceSampledKey ELSE ""] :
        m \in { {}, {2}, {1, 2, 3} } }

\* The base sink, slog.NewJSONHandler(os.Stdout, ...).
BaseSink == [attrs |-> << >>, groups |-> << >>]

\* WithAttrs / WithGroup of the wrapped handler: a new handler value.
BaseWithAttrs(b, as) == [b EXCEPT !.attrs = @ \o [i \in 1..Len(as) |-> [groups |-> b.groups, attr |-> as[i]]]]

BaseWithGroup(b, name) == [b EXCEPT !.groups = Append(@, name)]

\* TraceHandler.WithAttrs keeping the default keys instead of h.config.
TraceHandlerWithAttrs_defaultKeys(h, as) ==
    [Handler |-> BaseWithAttrs(h.Handler, as), config |-> NewTraceHandler(NoConfig)]

\* TraceHandler.WithAttrs / WithGroup: a new TraceHandler around the wrapped
\* handler's own WithAttrs / WithGroup result, with the same config.
TraceHandlerWithAttrs(h, as) ==
    [Handler |-> BaseWithAttrs(h.Handler, as), config |-> h.config]

TraceHandlerWithGroup(h, name) ==
    [Handler |-> BaseWithGroup(h.Handler, name), config |-> h.config]

\* Span contexts a record is handled under: no span, a valid unsampled span
\* context and a valid sampled one.
LogContexts ==
    { c \in Contexts :
        /\ c.traceID \in {ZeroBytes(16), LowBytes(16, 1)}
        /\ c.spanID \in {ZeroBytes(8), LowBytes(8, 2)}
        /\ IsValid(c) = (c.spanID # ZeroBytes(8))
        /\ IsValid(c) = (c.traceID # ZeroBytes(16))
        /\ c.recording = c.sampled
        /\ c.sampled => IsValid(c) }

LogRecords ==
    { [level |-> LevelInfo, msg |-> "Server starting", attrs |-> << >>],
      [level |-> LevelWarn, msg |-> "request",
       attrs |-> << Attr("trace_id", "from-caller"), Attr("user", "u1") >>] }

ExtraAttrs == { << Attr("service", "otel-go-dbm"), Attr("span_id", "fixed") >> }

GroupNames == {"req"}

\* The error values Handle can return.
NoError == "nil"

WriteError == "write error"

\* TraceHandler.Handle dropping the wrapped handler's error.
HandleResult_swallowed(sinkErr) == NoError

\* What TraceHandler.Handle returns: the wrapped handler's Handle result.
HandleResult(sinkErr) == sinkErr

\* handler := NewTraceHandler(base, config)
LogNew ==
    /\ Len(thHandlers) < MaxHandlers
    /\ \E c \in Configs :
          /\ thHandlers' = Append(thHandlers, [Handler |-> BaseSink, config |-> NewTraceHandler(c)])
          /\ lastNew' = [kind |-> "new", arg |-> c, argAfter |-> c, made |-> Len(thHandlers) + 1]
    /\ UNCHANGED <<lastHandle, sinkCalls>>
    /\ UNCHANGED exceptLog

\* h.WithAttrs(attrs)
LogWithAttrs ==
    /\ Len(thHandlers) < MaxHandlers
    /\ \E i \in 1..Len(thHandlers), as \in ExtraAttrs :
          /\ thHandlers' = Append(thHandlers, TraceHandlerWithAttrs(thHandlers[i], as))
          /\ lastNew' = [kind |-> "attrs", from |-> i, arg |-> as, made |-> Len(thHandlers) + 1]
    /\ UNCHANGED <<lastHandle, sinkCalls>>
    /\ UNCHANGED exceptLog

\* h.WithGroup(name)
LogWithGroup ==
    /\ Len(thHandlers) < MaxHandlers
    /\ \E i \in 1..Len(thHandlers), g \in GroupNames :
          /\ thHandlers' = Append(thHandlers, TraceHandlerWithGroup(thHandlers[i], g))
          /\ lastNew' = [kind |-> "group", from |-> i, arg |-> g, made |-> Len(thHandlers) + 1]
    /\ UNCHANGED <<lastHandle, sinkCalls>>
    /\ UNCHANGED exceptLog

\* h.Handle(ctx, r): the record, with the trace attributes when the context is
\* valid, goes to the wrapped handler's Handle, whose error is returned.
LogHandle ==
    /\ \E i \in 1..Len(thHandlers), sc \in LogContexts, r \in LogRecords, ok \in BOOLEAN :
          LET h    == thHandlers[i]
              sent == TraceHandlerHandle(h.config, sc, r)
              err  == IF ok THEN NoError ELSE WriteError
          IN  /\ sinkCalls' = << [Handler |-> h.Handler, rec |-> sent] >>
              /\ lastHandle' = [kind |-> "handle", h |-> i, sc |-> sc, rec |-> r,
                                sinkErr |-> err, err |-> HandleResult(err)]
    /\ UNCHANGED <<thHandlers, lastNew>>
    /\ UNCHANGED exceptLog

\* The annotator has not been called.
AnnIdle ==
    /\ environ = [k \in EnvKeys |-> ""]
    /\ ctx = [traceID |-> ZeroBytes(16), spanID |-> ZeroBytes(8),
              sampled |-> FALSE, recording |-> FALSE]
    /\ stmt = ""
    /\ query = ""
    /\ result = ""
    /\ calls = 0
    /\ logSink = << >>

IdleExceptLog == AnnIdle /\ SpansIdle /\ ConcIdle /\ HandIdle

InitLog == LogIdle /\ IdleExceptLog

NextLog == LogNew \/ LogWithAttrs \/ LogWithGroup \/ LogHandle

SpecLog == InitLog /\ [][NextLog]_vars

(***************************************************************************)
(* The span processor sqlSpanProcessorWrapper.  The SDK calls OnStart when  *)
(* a recording span is started, with the name and the attributes given to  *)
(* Start, and OnEnd when it ends; Shutdown and ForceFlush come from the     *)
(* tracer provider.                                                        *)
(***************************************************************************)
\* Longest list of spans started in one run.
MaxSpans == 2

DBSystemKey == "db.system"

\* The ways the program's spans start: name and attributes given to Start.
\* Handlers start spans by name only; the direct handlers name their query
\* span "database/sql.query"; otelsql starts its spans with the attributes
\* configured in initDB; otelhttp starts the server span with request attributes.
SpanStarts ==
    { [name |-> "database/sql.query", attrs |-> << >>],
      [name |-> "getUserOrderAnalytics.query", attrs |-> << >>],
      [name |-> "health", attrs |-> << >>],
      [name |-> "sql.conn.query",
       attrs |-> << Attr("db.system", "postgresql"), Attr("db.name", "testdb"),
                    Attr("service.name", "postgres") >>],
      [name |-> "server", attrs |-> << Attr("http.method", "GET") >>] }

\* The attributes a handler sets on its query span after Start.
HandlerAttrs(name) ==
    IF name = "database/sql.query"
    THEN << Attr("db.system", "postgresql"), Attr("db.name", "testdb"),
            Attr("db.operation", "SELECT"), Attr("span.type", "sql") >>
    ELSE IF name = "getUserOrderAnalytics.query"
    THEN << Attr("db.operation", "SELECT"), Attr("db.name", "testdb") >>
    ELSE << >>

\* Span.SetAttributes for one attribute: replaces the value under an existing
\* key, or adds the attribute.
SetAttribute(attrs, a) ==
    IF \E i \in 1..Len(attrs) : attrs[i].key = a.key
    THEN [i \in 1..Len(attrs) |-> IF attrs[i].key = a.key THEN a ELSE attrs[i]]
    ELSE Append(attrs, a)

RECURSIVE SetAttributes(_, _)
SetAttributes(attrs, as) ==
    IF as = << >> THEN attrs
    ELSE SetAttributes(SetAttribute(attrs, Head(as)), Tail(as))

\* The classification under the key type.
ClassificationAttr_type == Attr("type", "sql")

\* attribute.String("span.type", "sql")
ClassificationAttr == Attr("span.type", "sql")

\* isSQLSpan by the span name alone.
IsSQLSpan_nameOnly(name, attrs) == HasPrefix(name, "database/sql.")

\* isSQLSpan: the name has the prefix, or an attribute has the key db.system.
IsSQLSpan(name, attrs) ==
    \/ HasPrefix(name, "database/sql.")
    \/ \E i \in 1..Len(attrs) : attrs[i].key = DBSystemKey

\* OnStart with every other attribute dropped.
OnStart_replacing(s) ==
    IF IsSQLSpan(s.name, s.attrs)
    THEN [s EXCEPT !.attrs = << ClassificationAttr >>]
    ELSE s

\* sqlSpanProcessorWrapper.OnStart on span s.
OnStart(s) ==
    IF IsSQLSpan(s.name, s.attrs)
    THEN [s EXCEPT !.attrs = SetAttributes(@, << ClassificationAttr >>)]
    ELSE s

\* sqlSpanProcessorWrapper.OnEnd: the span is read only and nothing is done.
OnEnd(s) == s

\* tracer.Start(ctx, name, attributes): the SDK builds the span and calls
\* OnStart on it before Start returns.
SpanStart ==
    /\ Len(spans) < MaxSpans
    /\ \E st \in SpanStarts :
          LET new     == [name |-> st.name, attrs |-> st.attrs, ended |-> FALSE]
              started == OnStart(new)
          IN  /\ spans' = Append(spans, [name |-> started.name, attrs |-> started.attrs,
                                         ended |-> FALSE, atStart |-> st,
                                         afterOnStart |-> started.attrs])
              /\ lastProc' = [kind |-> "OnStart", span |-> Len(spans) + 1]
    /\ UNCHANGED proc
    /\ UNCHANGED exceptSpans

\* querySpan.SetAttributes(...) in a handler, after Start.
HandlerSetAttributes ==
    /\ \E i \in 1..Len(spans) :
          /\ ~spans[i].ended
          /\ HandlerAttrs(spans[i].name) # << >>
          /\ spans' = [spans EXCEPT ![i].attrs = SetAttributes(@, HandlerAttrs(spans[i].name))]
    /\ UNCHANGED <<proc, lastProc>>
    /\ UNCHANGED exceptSpans

\* span.End(): the SDK marks the span ended and calls OnEnd.
SpanEnd ==
    /\ \E i \in 1..Len(spans) :
          /\ ~spans[i].ended
          /\ LET seen == OnEnd(spans[i])
             IN  spans' = [spans EXCEPT ![i] = [@ EXCEPT !.name = seen.name,
                                                         !.attrs = seen.attrs,
                                                         !.ended = TRUE]]
          /\ lastProc' = [kind |-> "OnEnd", span |-> i]
    /\ UNCHANGED proc
    /\ UNCHANGED exceptSpans

\* Shutdown(ctx): return nil.
ProcShutdown ==
    /\ lastProc' = [kind |-> "Shutdown", err |-> NoError]
    /\ UNCHANGED <<spans, proc>>
    /\ UNCHANGED exceptSpans

\* ForceFlush(ctx): return nil.
ProcForceFlush ==
    /\ lastProc' = [kind |-> "ForceFlush", err |-> NoError]
    /\ UNCHANGED <<spans, proc>>
    /\ UNCHANGED exceptSpans

IdleExceptSpans == AnnIdle /\ LogIdle /\ ConcIdle /\ HandIdle

InitSpans == SpansIdle /\ IdleExceptSpans

NextSpans == SpanStart \/ HandlerSetAttributes \/ SpanEnd \/ ProcShutdown \/ ProcForceFlush

SpecSpans == InitSpans /\ [][NextSpans]_vars

(***************************************************************************)
(* Concurrent requests.  net/http serves each request in its own goroutine *)
(* with its own context; every goroutine runs the same handler code, logs  *)
(* through the one default logger and calls the annotator, which reads the *)
(* span from the context it is given and the process environment.         *)
(***************************************************************************)
\* Number of requests served at the same time.
MaxRequests == 2

Requests == 1..MaxRequests

\* context.Background(): no span.
NoSpan == [traceID |-> ZeroBytes(16), spanID |-> ZeroBytes(8),
           sampled |-> FALSE, recording |-> FALSE]

\* The contexts of incoming requests: no span, two recording spans of
\* different traces, and a valid span that is not recording.
ConcContexts ==
    { c \in Contexts :
        \/ c = NoSpan
        \/ /\ c.traceID = LowBytes(16, 1) /\ c.spanID = LowBytes(8, 2)
           /\ c.sampled = c.recording
        \/ /\ IsValid(c) /\ c.traceID # LowBytes(16, 1) /\ c.spanID # LowBytes(8, 2)
           /\ c.sampled /\ c.recording }

ConcStatements == {"SELECT 1"}

ConcEnvirons ==
    { e \in Environs :
        /\ e["OTEL_SERVICE_NAME"] \in {"", "svc"}
        /\ e["OTEL_RESOURCE_ATTRIBUTES"] = ""
        /\ e["DD_ENV"] = (IF e["OTEL_SERVICE_NAME"] = "" THEN "" ELSE "prod") }

\* trace.SpanFromContext reading the span of the first request's context.
SpanFromContext_first(ctxs, r) == ctxs[1]

\* trace.SpanFromContext(ctx): the span stored in the context passed in.
SpanFromContext(ctxs, r) == ctxs[r]

\* The record a handler logs before its query.
HandlerLog(sc) == slogContext(sc, LevelInfo, "Fetching category statistics", << >>)

\* A request arrives: otelhttp puts the request's span into its context.
ReqArrive(r) ==
    /\ reqPc[r] = "idle"
    /\ \E sc \in ConcContexts, q \in ConcStatements :
          /\ reqCtx' = [reqCtx EXCEPT ![r] = sc]
          /\ reqStmt' = [reqStmt EXCEPT ![r] = q]
    /\ reqPc' = [reqPc EXCEPT ![r] = "handling"]
    /\ UNCHANGED <<reqSpan, reqOut, reqLogs, procEnv>>
    /\ UNCHANGED exceptConc

\* slog.InfoContext(ctx, ...) in the handler: TraceHandler.Handle reads the
\* span from the request's context.
ReqLog(r) ==
    /\ reqPc[r] = "handling"
    /\ reqLogs' = [reqLogs EXCEPT ![r] = @ \o HandlerLog(SpanFromContext(reqCtx, r))]
    /\ reqPc' = [reqPc EXCEPT ![r] = "logged"]
    /\ UNCHANGED <<reqCtx, reqStmt, reqSpan, reqOut, procEnv>>
    /\ UNCHANGED exceptConc

\* addDatadogSQLComment, line 281: span := trace.SpanFromContext(ctx).
AnnEnter(r) ==
    /\ reqPc[r] = "logged"
    /\ reqSpan' = [reqSpan EXCEPT ![r] = SpanFromContext(reqCtx, r)]
    /\ reqPc' = [reqPc EXCEPT ![r] = "entered"]
    /\ UNCHANGED <<reqCtx, reqStmt, reqOut, reqLogs, procEnv>>
    /\ UNCHANGED exceptConc

\* addDatadogSQLComment, the rest: the comment is built from the span read
\* and the environment, and the call returns.
AnnReturn(r) ==
    /\ reqPc[r] = "entered"
    /\ LET res == addDatadogSQLComment(procEnv, reqSpan[r], reqStmt[r])
       IN  /\ reqOut' = [reqOut EXCEPT ![r] = res.ret]
           /\ reqLogs' = [reqLogs EXCEPT ![r] = @ \o res.records]
    /\ reqPc' = [reqPc EXCEPT ![r] = "returned"]
    /\ UNCHANGED <<reqCtx, reqStmt, reqSpan, procEnv>>
    /\ UNCHANGED exceptConc

\* The handler responds and the goroutine is free for the next request.
ReqFinish(r) ==
    /\ reqPc[r] = "returned"
    /\ reqCtx' = [reqCtx EXCEPT ![r] = NoSpan]
    /\ reqStmt' = [reqStmt EXCEPT ![r] = ""]
    /\ reqSpan' = [reqSpan EXCEPT ![r] = NoSpan]
    /\ reqOut' = [reqOut EXCEPT ![r] = ""]
    /\ reqLogs' = [reqLogs EXCEPT ![r] = << >>]
    /\ reqPc' = [reqPc EXCEPT ![r] = "idle"]
    /\ UNCHANGED procEnv
    /\ UNCHANGED exceptConc

IdleExceptConc == AnnIdle /\ LogIdle /\ SpansIdle /\ HandIdle

InitConc ==
    /\ reqCtx = [r \in Requests |-> NoSpan]
    /\ reqStmt = [r \in Requests |-> ""]
    /\ reqPc = [r \in Requests |-> "idle"]
    /\ reqSpan = [r \in Requests |-> NoSpan]
    /\ reqOut = [r \in Requests |-> ""]
    /\ reqLogs = [r \in Requests |-> << >>]
    /\ procEnv \in ConcEnvirons
    /\ IdleExceptConc

NextConc ==
    \E r \in Requests :
        ReqArrive(r) \/ ReqLog(r) \/ AnnEnter(r) \/ AnnReturn(r) \/ ReqFinish(r)

SpecConc == InitConc /\ [][NextConc]_vars

(***************************************************************************)
(* The HTTP handlers.  Serving a request is one step; hEvents lists what   *)
(* the handler did, in program order: spans started and ended, errors      *)
(* recorded on spans, records logged, annotator calls, database calls and  *)
(* responses written.                                                      *)
(***************************************************************************)
StatusOK == 200

StatusBadRequest == 400

StatusNotFound == 404

StatusMethodNotAllowed == 405

StatusInternalServerError == 500

StatusServiceUnavailable == 503

\* An event: what happened, the span it concerns, its text, its argument
\* and its HTTP status.
Ev(kind, span, text, arg, status) == <<kind, span, text, arg, status>>

EvKind(e) == e[1]

EvSpan(e) == e[2]

EvText(e) == e[3]

EvArg(e) == e[4]

EvStatus(e) == e[5]

\* tracer.Start(ctx, name): the new span's parent is the span in ctx.
EvStart(name, parent) == Ev("start", name, "", parent, 0)

EvEnd(name) == Ev("end", name, "", "", 0)

EvRecordError(name) == Ev("recordError", name, "", "", 0)

\* slog.InfoContext / slog.ErrorContext under the span in ctx.
EvLog(under, msg) == Ev("log", under, msg, "", 0)

\* h.db.PingContext(ctx)
EvPing(under) == Ev("ping", under, "", "db", 0)

\* h.db.QueryContext(ctx, stmt) / h.dbDirect.QueryContext(ctx, stmt)
EvQuery(under, db, statement) == Ev("query", under, statement, db, 0)

\* queryWithComment := addDatadogSQLComment(ctx, query)
EvAnnotate(under, input, output) == Ev("annotate", under, output, input, 0)

\* sendError / sendSuccess: the status written and the body encoded, success
\* false with the error's code and message, or success true with the data.
sendError(statusCode, code, message) == Ev("respond", message, code, "error", statusCode)

sendSuccess(statusCode, data) == Ev("respond", "", data, "success", statusCode)

\* The span otelhttp.NewHandler(mux, "server") puts into r.Context().
ServerSpan == "server"

Methods == {"GET", "POST"}

\* What the database does with the query: rows, no rows, an error from
\* Query, from Scan, or from rows.Err.
DBResults == {"rows", "empty", "queryErr", "scanErr", "rowsErr"}

\* Values of the order_id parameter: absent, not a number, a number, a
\* number beyond 32 bits, a signed number.
OrderIDs == {"", "abc", "42", "4294967296", "-1"}

HandlerEnvirons ==
    { e \in Environs :
        /\ e["OTEL_SERVICE_NAME"] \in {"", "a*/b"}
        /\ e["OTEL_RESOURCE_ATTRIBUTES"] = ""
        /\ e["DD_ENV"] = "" }

\* A request: its method and order_id, whether its trace is sampled, the
\* process environment, and what the database will answer.
HandlerRequests ==
    [method : Methods, sampled : BOOLEAN, env : HandlerEnvirons,
     ping : BOOLEAN, dbres : DBResults, orderID : OrderIDs]

\* The requests that differ in what health reads.
HealthRequests ==
    { req \in HandlerRequests :
        /\ req.dbres = "rows" /\ req.orderID = ""
        /\ req.env["OTEL_SERVICE_NAME"] = "" }

\* The requests that differ in what the analytics handlers read.
AnalyticsRequests ==
    { req \in HandlerRequests : req.ping /\ req.orderID = "" }

\* The requests that differ in what the order handlers read.
OrderRequests ==
    { req \in HandlerRequests : req.ping }

\* The span ids the SDK gives the spans of one request.
SpanIDOf(name) ==
    IF name = ServerSpan THEN LowBytes(8, 1)
    ELSE IF HasSuffix(name, ".query") THEN LowBytes(8, 2)
    ELSE <<0, 240, 103, 170, 11, 169, 2, 183>>

\* The span context of span name in a request: under the default sampler
\* (parent based, always on) every span of a sampled trace is recording and
\* no span of an unsampled trace is.
SpanContextOf(req, name) ==
    [traceID |-> LowBytes(16, 1), spanID |-> SpanIDOf(name),
     sampled |-> req.sampled, recording |-> req.sampled]

\* health answering without looking at the database.
health_noPing(req) ==
    << EvStart("health", ServerSpan) >> \o
    IF req.method # "GET"
    THEN << sendError(StatusMethodNotAllowed, "METHOD_NOT_ALLOWED", "Method not allowed"), EvEnd("health") >>
    ELSE << sendSuccess(StatusOK, "status=ok"), EvEnd("health") >>

\* handler.health
health(req) ==
    << EvStart("health", ServerSpan) >> \o
    IF req.method # "GET"
    THEN << sendError(StatusMethodNotAllowed, "METHOD_NOT_ALLOWED", "Method not allowed"), EvEnd("health") >>
    ELSE << EvStart("health.db_ping", ServerSpan), EvPing("health.db_ping") >> \o
         IF ~req.ping
         THEN << EvRecordError("health.db_ping"), EvEnd("health.db_ping"),
                 EvRecordError("health"),
                 sendError(StatusServiceUnavailable, "DB_ERROR", "Database ping failed"),
                 EvEnd("health") >>
         ELSE << EvEnd("health.db_ping"),
                 sendSuccess(StatusOK, "status=ok"),
                 EvEnd("health") >>

\* The server takes the request req for handler name and runs the handler
\* to its return.
Serve(name, req, events) ==
    /\ hReq' = [kind |-> name, req |-> req]
    /\ hEvents' = events
    /\ UNCHANGED dbDirectInitialized
    /\ UNCHANGED exceptHand

\* GET /health
Health ==
    /\ hReq = None
    /\ \E req \in HealthRequests : Serve("health", req, health(req))

\* The statements of the handlers, shortened to their first and last clauses.
UserOrdersQuery ==
    "SELECT users.id as user_id FROM users LEFT JOIN orders ON orders.user_id = users.id LIMIT 50"

ProductSalesQuery ==
    "SELECT products.id as product_id, '' as category FROM products LEFT JOIN orders ON orders.status = 'completed' LIMIT 50"

CategoryQuery == "SELECT COUNT(DISTINCT products.id) as product_count FROM products"

OrderDetailsQuery ==
    "SELECT orders.id as order_id FROM orders INNER JOIN users ON users.id = orders.user_id WHERE orders.id = $1"

\* strconv.ParseUint(s, 10, bitSize) succeeds: digits only, within the size.
Digits == "0123456789"

IsDigits(s) == Len(s) > 0 /\ \A i \in 1..Len(s) : Contains(Digits, CharAt(s, i))

MaxUintText(bitSize) == IF bitSize = 32 THEN "4294967295" ELSE "18446744073709551615"

RECURSIVE TrimZeros(_)
TrimZeros(s) == IF Len(s) > 1 /\ CharAt(s, 1) = "0" THEN TrimZeros(SubSeq(s, 2, Len(s))) ELSE s

\* a <= b for digit strings of the same length.
RECURSIVE LeqSameLen(_, _)
LeqSameLen(a, b) ==
    IF Len(a) = 0 THEN TRUE
    ELSE LET x == Index(Digits, CharAt(a, 1))
             y == Index(Digits, CharAt(b, 1))
         IN  IF x # y THEN x < y
             ELSE LeqSameLen(SubSeq(a, 2, Len(a)), SubSeq(b, 2, Len(b)))

ParseUintOk(s, bitSize) ==
    /\ IsDigits(s)
    /\ LET t == TrimZeros(s)
           m == MaxUintText(bitSize)
       IN  Len(t) < Len(m) \/ (Len(t) = Len(m) /\ LeqSameLen(t, m))

\* What a call of the annotator that returned res leaves behind: the records
\* it logged under the span of its context, then its return.
AnnotatorEvents(res, under, q) ==
    [i \in 1..Len(res.records) |-> EvLog(under, res.records[i].msg)] \o
    << EvAnnotate(under, q, res.ret) >>

\* The annotator called on its own output before the query is sent.
QueryWithComment_twice(req, under, q) ==
    LET Once(res) ==
            [events |-> AnnotatorEvents(res, under, q), statement |-> res.ret]
        After(first) ==
            LET Again(res) ==
                    [events    |-> first.events \o AnnotatorEvents(res, under, first.statement),
                     statement |-> res.ret]
            IN  Again(addDatadogSQLComment(req.env, SpanContextOf(req, under),
                                           first.statement))
    IN  After(Once(addDatadogSQLComment(req.env, SpanContextOf(req, under), q)))

\* queryWithComment := addDatadogSQLComment(ctx, query): one call, whose
\* return value is the statement sent.
QueryWithComment(req, under, q) ==
    LET Returned(res) ==
            [events |-> AnnotatorEvents(res, under, q), statement |-> res.ret]
    IN  Returned(addDatadogSQLComment(req.env, SpanContextOf(req, under), q))

\* An error path that returns with the query span left open.
QueryFailure_queryOpen(name, qs, msg, message) ==
    << EvRecordError(qs), EvRecordError(name), EvLog(qs, msg),
       sendError(StatusInternalServerError, "INTERNAL_ERROR", message),
       EvEnd(name) >>

\* An error path after the query was sent: the error is recorded on the query
\* span and the handler span, logged, answered with 500, and the deferred
\* End calls run.
QueryFailure(name, qs, msg, message) ==
    << EvRecordError(qs), EvRecordError(name), EvLog(qs, msg),
       sendError(StatusInternalServerError, "INTERNAL_ERROR", message),
       EvEnd(qs), EvEnd(name) >>

\* The method check without its return: the handler goes on to a success.
MethodNotAllowed_noReturn(name) ==
    << sendError(StatusMethodNotAllowed, "METHOD_NOT_ALLOWED", "Method not allowed"),
       sendSuccess(StatusOK, "stats"), EvEnd(name) >>

MethodNotAllowed(name) ==
    << sendError(StatusMethodNotAllowed, "METHOD_NOT_ALLOWED", "Method not allowed"), EvEnd(name) >>

\* The handlers taking every answer of the database for rows.
AfterQuery_ignoringErrors(name, qs, req, msgQuery, message, suffix, onRows) == onRows

\* What follows QueryContext in the handlers that read rows; onRows is the
\* rest of the handler when the rows were read.
AfterQuery(name, qs, req, msgQuery, message, suffix, onRows) ==
    IF req.dbres = "queryErr" THEN QueryFailure(name, qs, msgQuery, message)
    ELSE IF req.dbres = "scanErr"
    THEN QueryFailure(name, qs, "Failed to scan row" \o suffix, "Failed to scan results")
    ELSE IF req.dbres = "rowsErr"
    THEN QueryFailure(name, qs, "Row iteration error" \o suffix, "Failed to iterate results")
    ELSE onRows

\* The query part with the context of the handler-named span kept: the query
\* span is its child.
InstrumentedQuery_underHandler(name, parent, req, q) ==
    LET qs == name \o ".query"
        Send(qwc) ==
            << EvStart(qs, name) >> \o qwc.events \o
            << EvQuery(qs, "db", qwc.statement) >>
    IN  Send(QueryWithComment(req, qs, q))

\* The query part of the handlers on the instrumented connection: the query
\* span, one annotator call under it, the query.
InstrumentedQuery(name, parent, req, q) ==
    LET qs == name \o ".query"
        Send(qwc) ==
            << EvStart(qs, parent) >> \o qwc.events \o
            << EvQuery(qs, "db", qwc.statement) >>
    IN  Send(QueryWithComment(req, qs, q))

PrepareResponse(name, data) ==
    LET qs == name \o ".query"
        rs == name \o ".prepare_response"
    IN  << EvStart(rs, qs), EvEnd(rs), sendSuccess(StatusOK, data), EvEnd(qs), EvEnd(name) >>

\* handler.getUserOrderAnalytics
getUserOrderAnalytics(req) ==
    LET name == "getUserOrderAnalytics"
    IN  << EvStart(name, ServerSpan) >> \o
        IF req.method # "GET" THEN MethodNotAllowed(name)
        ELSE InstrumentedQuery(name, ServerSpan, req, UserOrdersQuery) \o
             AfterQuery(name, name \o ".query", req, "Failed to compute analytics",
                        "Failed to get statistics", "",
                        PrepareResponse(name, "stats"))

\* handler.getProductStats
getProductStats(req) ==
    LET name == "getProductStats"
    IN  << EvStart(name, ServerSpan),
           EvLog(ServerSpan, "Computing product review statistics (heavy aggregation)") >> \o
        IF req.method # "GET" THEN MethodNotAllowed(name)
        ELSE InstrumentedQuery(name, ServerSpan, req, ProductSalesQuery) \o
             AfterQuery(name, name \o ".query", req, "Failed to compute product stats",
                        "Failed to get statistics", "",
                        PrepareResponse(name, "stats"))

\* handler.getCategoryStats: QueryRowContext(...).Scan fails on a query
\* error, a scan error and on no row.
getCategoryStats(req) ==
    LET name == "getCategoryStats"
    IN  << EvStart(name, ServerSpan),
           EvLog(ServerSpan, "Fetching category statistics") >> \o
        IF req.method # "GET" THEN MethodNotAllowed(name)
        ELSE InstrumentedQuery(name, ServerSpan, req, CategoryQuery) \o
             IF req.dbres # "rows"
             THEN QueryFailure(name, name \o ".query", "Failed to get category stats",
                               "Failed to get statistics")
             ELSE PrepareResponse(name, "stats")

\* handler.getOrderDetails
getOrderDetails(req) ==
    LET name == "getOrderDetails"
        vs   == "getOrderDetails.validate_params"
        qs   == "getOrderDetails.query"
    IN  << EvStart(name, ServerSpan) >> \o
        IF req.method # "GET" THEN MethodNotAllowed(name)
        ELSE << EvStart(vs, ServerSpan) >> \o
             IF req.orderID = ""
             THEN << EvEnd(vs), sendError(StatusBadRequest, "MISSING_ORDER_ID", "Order ID is required"), EvEnd(name) >>
             ELSE IF ~ParseUintOk(req.orderID, 32)
             THEN << EvRecordError(vs), EvEnd(vs), EvRecordError(name),
                     sendError(StatusBadRequest, "INVALID_ORDER_ID", "Invalid order ID"), EvEnd(name) >>
             ELSE << EvEnd(vs) >> \o
                  InstrumentedQuery(name, vs, req, OrderDetailsQuery) \o
                  AfterQuery(name, qs, req, "Failed to fetch order details",
                             "Failed to get order details", "",
                             IF req.dbres = "empty"
                             THEN << sendError(StatusNotFound, "ORDER_NOT_FOUND", "Order not found"),
                                     EvEnd(qs), EvEnd(name) >>
                             ELSE PrepareResponse(name, "order_details"))

\* The query part of the direct handlers: one annotator call under the
\* context of the request, then the span "database/sql.query", then the query
\* on the plain connection.
DirectSpan == "database/sql.query"

DirectQuery(req, q) ==
    LET Send(qwc) ==
            qwc.events \o
            << EvStart(DirectSpan, ServerSpan),
               EvQuery(DirectSpan, "dbDirect", qwc.statement) >>
    IN  Send(QueryWithComment(req, ServerSpan, q))

DirectUnavailable ==
    << sendError(StatusServiceUnavailable, "SERVICE_UNAVAILABLE",
                 "Direct DB connection not initialized") >>

DirectSuccess(name, data) ==
    << sendSuccess(StatusOK, data \o ",mode=direct"), EvEnd(DirectSpan), EvEnd(name) >>

\* handler.getUserOrderAnalyticsDirect
getUserOrderAnalyticsDirect(req, initialized) ==
    LET name == "getUserOrderAnalyticsDirect"
    IN  IF ~initialized THEN DirectUnavailable
        ELSE << EvStart(name, ServerSpan) >> \o
             IF req.method # "GET" THEN MethodNotAllowed(name)
             ELSE DirectQuery(req, UserOrdersQuery) \o
                  AfterQuery(name, DirectSpan, req, "Failed to compute analytics (direct)",
                             "Failed to get statistics",
                             " (direct)", DirectSuccess(name, "stats"))

\* handler.getProductStatsDirect
getProductStatsDirect(req, initialized) ==
    LET name == "getProductStatsDirect"
    IN  IF ~initialized THEN DirectUnavailable
        ELSE << EvStart(name, ServerSpan) >> \o
             IF req.method # "GET" THEN MethodNotAllowed(name)
             ELSE DirectQuery(req, ProductSalesQuery) \o
                  AfterQuery(name, DirectSpan, req, "Failed to compute product stats (direct)",
                             "Failed to get statistics",
                             " (direct)", DirectSuccess(name, "stats"))

\* handler.getCategoryStatsDirect
getCategoryStatsDirect(req, initialized) ==
    LET name == "getCategoryStatsDirect"
    IN  IF ~initialized THEN DirectUnavailable
        ELSE << EvStart(name, ServerSpan) >> \o
             IF req.method # "GET" THEN MethodNotAllowed(name)
             ELSE DirectQuery(req, CategoryQuery) \o
                  IF req.dbres # "rows"
                  THEN QueryFailure(name, DirectSpan, "Failed to get category stats (direct)",
                                    "Failed to get statistics")
                  ELSE DirectSuccess(name, "stats")

\* handler.getOrderDetailsDirect
getOrderDetailsDirect(req, initialized) ==
    LET name == "getOrderDetailsDirect"
    IN  IF ~initialized THEN DirectUnavailable
        ELSE << EvStart(name, ServerSpan) >> \o
             IF req.method # "GET" THEN MethodNotAllowed(name)
             ELSE IF req.orderID = ""
             THEN << sendError(StatusBadRequest, "INVALID_INPUT", "order_id is required"),
                     EvEnd(name) >>
             ELSE IF ~ParseUintOk(req.orderID, 64)
             THEN << sendError(StatusBadRequest, "INVALID_INPUT", "Invalid order_id format"),
                     EvEnd(name) >>
             ELSE DirectQuery(req, OrderDetailsQuery) \o
                  AfterQuery(name, DirectSpan, req, "Failed to fetch order details (direct)",
                             "Failed to get order details",
                             " (direct)",
                             IF req.dbres = "empty"
                             THEN << sendError(StatusNotFound, "ORDER_NOT_FOUND", "Order not found"),
                                     EvEnd(DirectSpan), EvEnd(name) >>
                             ELSE DirectSuccess(name, "order_details"))

\* GET /api/v1/analytics/user-orders
GetUserOrderAnalytics ==
    /\ hReq = None
    /\ \E req \in AnalyticsRequests :
          Serve("getUserOrderAnalytics", req, getUserOrderAnalytics(req))

\* GET /api/v1/analytics/product-sales
GetProductStats ==
    /\ hReq = None
    /\ \E req \in AnalyticsRequests : Serve("getProductStats", req, getProductStats(req))

\* GET /api/v1/analytics/category
GetCategoryStats ==
    /\ hReq = None
    /\ \E req \in AnalyticsRequests : Serve("getCategoryStats", req, getCategoryStats(req))

\* GET /api/v1/orders/details
GetOrderDetails ==
    /\ hReq = None
    /\ \E req \in OrderRequests : Serve("getOrderDetails", req, getOrderDetails(req))

\* The /api/v1/test/... routes exist only when main registered them.
GetUserOrderAnalyticsDirect ==
    /\ hReq = None
    /\ dbDirectInitialized
    /\ \E req \in AnalyticsRequests :
          Serve("getUserOrderAnalyticsDirect", req, getUserOrderAnalyticsDirect(req, dbDirectInitialized))

GetProductStatsDirect ==
    /\ hReq = None
    /\ dbDirectInitialized
    /\ \E req \in AnalyticsRequests :
          Serve("getProductStatsDirect", req, getProductStatsDirect(req, dbDirectInitialized))

GetCategoryStatsDirect ==
    /\ hReq = None
    /\ dbDirectInitialized
    /\ \E req \in AnalyticsRequests :
          Serve("getCategoryStatsDirect", req, getCategoryStatsDirect(req, dbDirectInitialized))

GetOrderDetailsDirect ==
    /\ hReq = None
    /\ dbDirectInitialized
    /\ \E req \in OrderRequests :
          Serve("getOrderDetailsDirect", req, getOrderDetailsDirect(req, dbDirectInitialized))

\* The patterns main registers only when the direct connection opened.
DirectPaths ==
    { "/api/v1/test/analytics/user-orders", "/api/v1/test/analytics/product-sales",
      "/api/v1/test/analytics/category", "/api/v1/test/orders/details" }

\* Paths requested for which the mux has no pattern.
UnroutedPaths(initialized) ==
    {"/api/v1/users"} \cup (IF initialized THEN {} ELSE DirectPaths)

\* A request for a path without a route: the mux answers 404 itself and no
\* handler runs.
NotFound ==
    /\ hReq = None
    /\ \E req \in HealthRequests, path \in UnroutedPaths(dbDirectInitialized) :
          /\ hReq' = [kind |-> "NotFound", req |-> req, path |-> path]
          /\ hEvents' = << Ev("respond", "", "404 page not found", "mux", StatusNotFound) >>
    /\ UNCHANGED dbDirectInitialized
    /\ UNCHANGED exceptHand

\* The response is out and the server waits for the next request.
RequestDone ==
    /\ hReq # None
    /\ hReq' = None
    /\ hEvents' = << >>
    /\ UNCHANGED dbDirectInitialized
    /\ UNCHANGED exceptHand

IdleExceptHand == AnnIdle /\ LogIdle /\ SpansIdle /\ ConcIdle

\* main: the direct connection opens or it does not; then the server runs.
InitHand ==
    /\ hReq = None
    /\ hEvents = << >>
    /\ dbDirectInitialized \in BOOLEAN
    /\ IdleExceptHand

NextHand ==
    \/ Health
    \/ GetUserOrderAnalytics
    \/ GetProductStats
    \/ GetCategoryStats
    \/ GetOrderDetails
    \/ GetUserOrderAnalyticsDirect
    \/ GetProductStatsDirect
    \/ GetCategoryStatsDirect
    \/ GetOrderDetailsDirect
    \/ NotFound
    \/ RequestDone

SpecHand == InitHand /\ [][NextHand]_vars

(***************************************************************************)
(* Claims about the log decorator.                                         *)
(***************************************************************************)
Handled == lastHandle.kind = "handle"

\* The three attributes Handle adds under the keys of config cfg.
TraceAttrsAt(attrs, n, cfg, sc) ==
    /\ Len(attrs) = n + 3
    /\ attrs[n + 1].key = cfg.TraceIDKey
    /\ attrs[n + 1].val = EncodeToString(sc.traceID)
    /\ Len(attrs[n + 1].val) = 32 /\ IsLowerHex(attrs[n + 1].val)
    /\ attrs[n + 2].key = cfg.SpanIDKey
    /\ attrs[n + 2].val = EncodeToString(sc.spanID)
    /\ Len(attrs[n + 2].val) = 16 /\ IsLowerHex(attrs[n + 2].val)
    /\ attrs[n + 3].key = cfg.TraceSampledKey
    /\ attrs[n + 3].val \in BOOLEAN
    /\ attrs[n + 3].val = sc.sampled

\* C11: the record TraceHandler.Handle passes to the wrapped handler keeps the
\* attributes it had; under an invalid span context it has no others, under a
\* valid one it has exactly three more, under the configured keys: the trace id
\* and span id as lowercase hex strings and the sampled flag as a boolean.
C11_HandleAddsExactlyThree ==
    Handled =>
        LET cfg == thHandlers[lastHandle.h].config
            r   == lastHandle.rec
            out == sinkCalls[1].rec
            n   == Len(r.attrs)
        IN  /\ out.level = r.level /\ out.msg = r.msg
            /\ Len(out.attrs) >= n
            /\ SubSeq(out.attrs, 1, n) = r.attrs
            /\ IF IsValid(lastHandle.sc)
               THEN TraceAttrsAt(out.attrs, n, cfg, lastHandle.sc)
               ELSE Len(out.attrs) = n

C11_Witness ==
    /\ Handled
    /\ IsValid(lastHandle.sc)
    /\ ~lastHandle.sc.sampled
    /\ Len(lastHandle.rec.attrs) = 2
    /\ thHandlers[lastHandle.h].config.TraceIDKey = CustomKeys.TraceIDKey
    /\ Len(sinkCalls[1].rec.attrs) = 5

\* The key NewTraceHandler must give for an argument's field.
ResolvedKey(config, given, default) ==
    IF config.nil \/ given = "" THEN default ELSE given

\* C12: NewTraceHandler resolves each key on its own: a nil config or an empty
\* field gives the default (trace_id, span_id, trace_sampled), a set field is
\* kept, and the argument is the same after the call.
C12_KeysResolvedIndependently ==
    lastNew.kind = "new" =>
        LET c   == lastNew.arg
            cfg == thHandlers[lastNew.made].config
        IN  /\ cfg.TraceIDKey = ResolvedKey(c, c.TraceIDKey, "trace_id")
            /\ cfg.SpanIDKey = ResolvedKey(c, c.SpanIDKey, "span_id")
            /\ cfg.TraceSampledKey = ResolvedKey(c, c.TraceSampledKey, "trace_sampled")
            /\ lastNew.argAfter = c
            /\ thHandlers[lastNew.made].Handler = BaseSink

C12_Witness ==
    /\ lastNew.kind = "new"
    /\ ~lastNew.arg.nil
    /\ lastNew.arg.TraceIDKey = ""
    /\ lastNew.arg.SpanIDKey # ""
    /\ thHandlers[lastNew.made].config.TraceIDKey = "trace_id"
    /\ thHandlers[lastNew.made].config.SpanIDKey = lastNew.arg.SpanIDKey

\* C13: WithAttrs and WithGroup leave every existing TraceHandler, with the
\* handler it wraps, as it was; the TraceHandler they return wraps the result
\* of the wrapped handler's own WithAttrs / WithGroup and has the same key
\* config; a record handled through any TraceHandler, derived or not, still
\* gets the trace attributes under a valid span context.
C13_DerivedHandlersKeepConfig ==
    /\ [][ /\ \A i \in 1..Len(thHandlers) : thHandlers'[i] = thHandlers[i]
           /\ (lastNew' # lastNew /\ lastNew'.kind \in {"attrs", "group"}) =>
                 LET o == thHandlers[lastNew'.from]
                     n == thHandlers'[lastNew'.made]
                 IN  /\ lastNew'.made = Len(thHandlers) + 1
                     /\ n.config = o.config
                     /\ n.Handler = IF lastNew'.kind = "attrs"
                                    THEN BaseWithAttrs(o.Handler, lastNew'.arg)
                                    ELSE BaseWithGroup(o.Handler, lastNew'.arg)
         ]_vars
    /\ []((Handled /\ IsValid(lastHandle.sc)) =>
             /\ sinkCalls[1].Handler = thHandlers[lastHandle.h].Handler
             /\ TraceAttrsAt(sinkCalls[1].rec.attrs, Len(lastHandle.rec.attrs),
                             thHandlers[lastHandle.h].config, lastHandle.sc))

C13_Witness ==
    /\ Len(thHandlers) = 3
    /\ lastNew.kind = "group" /\ lastNew.from = 2 /\ lastNew.made = 3
    /\ thHandlers[2].Handler.attrs # << >>
    /\ thHandlers[1].Handler = BaseSink
    /\ thHandlers[3].Handler.groups = << "req" >>
    /\ thHandlers[3].config = CustomKeys
    /\ Handled /\ lastHandle.h = 3 /\ IsValid(lastHandle.sc)
    /\ AttrValues(sinkCalls[1].rec, "sid") = {EncodeToString(lastHandle.sc.spanID)}

\* C14 as stated: every Handle call forwards the record to the wrapped
\* handler exactly once and reports no error.
C14_HandleReportsNoError ==
    Handled => Len(sinkCalls) = 1 /\ lastHandle.err = NoError

\* C14 (amended): every Handle call forwards the record to the wrapped handler
\* exactly once and returns that handler's result, nil or its error, adding no
\* error of its own.
C14_HandleReturnsSinkResult ==
    Handled =>
        /\ Len(sinkCalls) = 1
        /\ sinkCalls[1].Handler = thHandlers[lastHandle.h].Handler
        /\ lastHandle.err = lastHandle.sinkErr

C14_Witness ==
    /\ Handled
    /\ Len(sinkCalls) = 1
    /\ lastHandle.sinkErr = WriteError
    /\ lastHandle.err = WriteError

(***************************************************************************)
(* Claims about the span processor.                                        *)
(***************************************************************************)
AttrSet(attrs) == { attrs[i] : i \in 1..Len(attrs) }

\* The attributes a span has after OnStart that were not given to Start.
AddedAtStart(s) == AttrSet(s.afterOnStart) \ AttrSet(s.atStart.attrs)

\* The span is one the claim calls a database span: by name or by db.system.
Recognized(st) ==
    \/ HasPrefix(st.name, "database/sql.")
    \/ \E a \in AttrSet(st.attrs) : a.key = "db.system"

\* C15: OnStart adds the classification attribute to a span exactly when the
\* span's name starts with "database/sql." or the span has a db.system
\* attribute when it starts; any other span leaves OnStart as it entered.
C15_ClassifiedIffRecognized ==
    \A i \in 1..Len(spans) :
        LET s == spans[i]
        IN  IF Recognized(s.atStart)
            THEN Cardinality(AddedAtStart(s)) = 1
            ELSE s.afterOnStart = s.atStart.attrs

C15_Witness ==
    /\ Len(spans) = 2
    /\ spans[1].name = "sql.conn.query"
    /\ AddedAtStart(spans[1]) # {}
    /\ spans[2].name = "getUserOrderAnalytics.query"
    /\ spans[2].attrs # << >>
    /\ AddedAtStart(spans[2]) = {}

\* C16 as stated: the attribute OnStart adds to a recognized span has the key
\* type and the value "sql".
C16_KeyIsType ==
    \A i \in 1..Len(spans) :
        Recognized(spans[i].atStart) =>
            AddedAtStart(spans[i]) = { [key |-> "type", val |-> "sql"] }

\* C16 (amended): the attribute OnStart adds to a recognized span has the key
\* span.type and the value "sql".
C16_KeyIsSpanType ==
    \A i \in 1..Len(spans) :
        Recognized(spans[i].atStart) =>
            AddedAtStart(spans[i]) = { [key |-> "span.type", val |-> "sql"] }

C16_Witness ==
    /\ Len(spans) >= 1
    /\ spans[1].name = "database/sql.query"
    /\ spans[1].afterOnStart = << [key |-> "span.type", val |-> "sql"] >>

\* C17: OnStart keeps the span's name and the attributes it started with and
\* adds at most one attribute; it touches no other span.  OnEnd, Shutdown and
\* ForceFlush change no span's name or attributes, the processor value never
\* changes, and Shutdown and ForceFlush return nil, in whatever order and
\* number the calls come.
C17_OnlyOneAttributeAtStart ==
    /\ [](\A i \in 1..Len(spans) :
            LET s == spans[i]
                n == Len(s.atStart.attrs)
            IN  /\ s.name = s.atStart.name
                /\ Len(s.afterOnStart) \in {n, n + 1}
                /\ SubSeq(s.afterOnStart, 1, n) = s.atStart.attrs)
    /\ [][ /\ proc' = proc
           /\ (lastProc' # lastProc /\ lastProc'.kind = "OnStart") =>
                 /\ Len(spans') = Len(spans) + 1
                 /\ \A i \in 1..Len(spans) : spans'[i] = spans[i]
           /\ (lastProc' # lastProc /\ lastProc'.kind = "OnEnd") =>
                 /\ Len(spans') = Len(spans)
                 /\ \A i \in 1..Len(spans) :
                       /\ spans'[i].name = spans[i].name
                       /\ spans'[i].attrs = spans[i].attrs
           /\ (lastProc' # lastProc /\ lastProc'.kind \in {"Shutdown", "ForceFlush"}) =>
                 /\ spans' = spans
                 /\ lastProc'.err = NoError
         ]_vars

C17_Witness ==
    /\ Len(spans) = 2
    /\ spans[1].atStart.name = "sql.conn.query"
    /\ Len(spans[1].afterOnStart) = Len(spans[1].atStart.attrs) + 1
    /\ spans[1].ended
    /\ spans[2].afterOnStart = << >>
    /\ lastProc.kind = "ForceFlush"

(***************************************************************************)
(* Claims about concurrent requests.                                       *)
(***************************************************************************)
\* The trace attributes of record rec are those of span context sc, or none
\* when sc is not valid.
CarriesOnly(rec, sc) ==
    IF IsValid(sc)
    THEN /\ AttrValues(rec, "trace_id") = {EncodeToString(sc.traceID)}
         /\ AttrValues(rec, "span_id") = {EncodeToString(sc.spanID)}
         /\ AttrValues(rec, "trace_sampled") = {sc.sampled}
    ELSE /\ AttrValues(rec, "trace_id") = {}
         /\ AttrValues(rec, "span_id") = {}
         /\ AttrValues(rec, "trace_sampled") = {}

\* C18: however the requests' steps interleave, what the annotator returned
\* for a request is what it returns for that request's context, statement and
\* the process environment alone, the records logged for the request carry
\* that request's ids (or none), and the returned statement holds the request's
\* own traceparent and no other request's.
C18_OwnContextOnly ==
    \A r \in Requests :
        /\ \A i \in 1..Len(reqLogs[r]) : CarriesOnly(reqLogs[r][i], reqCtx[r])
        /\ reqPc[r] = "returned" =>
              /\ reqOut[r] = addDatadogSQLComment(procEnv, reqCtx[r], reqStmt[r]).ret
              /\ reqLogs[r] = HandlerLog(reqCtx[r]) \o
                              addDatadogSQLComment(procEnv, reqCtx[r], reqStmt[r]).records
              /\ reqCtx[r].recording => Contains(reqOut[r], Traceparent(reqCtx[r]))
              /\ \A q \in Requests :
                    (reqPc[q] # "idle" /\ IsValid(reqCtx[q])
                       /\ Traceparent(reqCtx[q]) # Traceparent(reqCtx[r]))
                    => ~Contains(reqOut[r], Traceparent(reqCtx[q]))

C18_Witness ==
    /\ reqPc[1] = "returned" /\ reqPc[2] = "returned"
    /\ reqCtx[1].recording /\ reqCtx[2].recording
    /\ reqCtx[1].traceID # reqCtx[2].traceID
    /\ reqOut[1] # reqOut[2]
    /\ Contains(reqOut[1], Traceparent(reqCtx[1]))
    /\ Contains(reqOut[2], Traceparent(reqCtx[2]))
    /\ Len(reqLogs[1]) = 3 /\ Len(reqLogs[2]) = 3

(***************************************************************************)
(* Claims about the HTTP handlers.                                         *)
(***************************************************************************)
\* The events of one kind, in order.
EventsOf(kind) == SelectSeq(hEvents, LAMBDA e : EvKind(e) = kind)

\* Where the events of one kind stand in hEvents.
PositionsOf(kind) == { i \in 1..Len(hEvents) : EvKind(hEvents[i]) = kind }

AnalyticsHandlers ==
    { "getUserOrderAnalytics", "getProductStats", "getCategoryStats", "getOrderDetails",
      "getUserOrderAnalyticsDirect", "getProductStatsDirect", "getCategoryStatsDirect",
      "getOrderDetailsDirect" }

\* The start of a comment block the annotator writes.
BlockStart == "/*dddbs='"

\* C19: an analytics or order handler, direct or not, calls the annotator once
\* for the query it sends, on the handler's own statement text, which holds no
\* annotator block; the statement sent is what that call returned and holds at
\* most one annotator block.
C19_AnnotatedOncePerQuery ==
    hReq.kind \in AnalyticsHandlers =>
        LET queries == EventsOf("query")
            annots  == EventsOf("annotate")
        IN  /\ Len(queries) <= 1
            /\ Len(annots) = Len(queries)
            /\ \A i \in 1..Len(queries) :
                  /\ EvText(queries[i]) = EvText(annots[i])
                  /\ Occurrences(EvArg(annots[i]), BlockStart) = {}
                  /\ Cardinality(Occurrences(EvText(queries[i]), BlockStart)) <= 1
            /\ \A a \in PositionsOf("annotate") : \E q \in PositionsOf("query") : a < q

C19_Witness ==
    /\ hReq.kind = "getOrderDetailsDirect"
    /\ hReq.req.sampled
    /\ Len(EventsOf("annotate")) = 1
    /\ Len(EventsOf("query")) = 1
    /\ Cardinality(Occurrences(EvText(EventsOf("query")[1]), BlockStart)) = 1
    /\ EvArg(EventsOf("annotate")[1]) = OrderDetailsQuery

\* C20: a GET on /health pings the database once and writes one response:
\* 200 with status "ok" exactly when the ping succeeded, 503 with the code
\* DB_ERROR when it failed.
C20_HealthFollowsPing ==
    (hReq.kind = "health" /\ hReq.req.method = "GET") =>
        LET rs == EventsOf("respond")
        IN  /\ Len(EventsOf("ping")) = 1
            /\ Len(rs) = 1
            /\ (EvStatus(rs[1]) = 200 /\ EvArg(rs[1]) = "success"
                  /\ EvText(rs[1]) = "status=ok") <=> hReq.req.ping
            /\ ~hReq.req.ping =>
                  /\ EvStatus(rs[1]) = 503
                  /\ EvArg(rs[1]) = "error"
                  /\ EvText(rs[1]) = "DB_ERROR"

C20_Witness ==
    /\ hReq.kind = "health"
    /\ hReq.req.method = "GET"
    /\ ~hReq.req.ping
    /\ Len(EventsOf("ping")) = 1
    /\ EvStatus(EventsOf("respond")[1]) = 503

(***************************************************************************)
(* Claims about the responses of the handlers.                             *)
(***************************************************************************)

Responses == EventsOf("respond")

\* The one response of the request, by status and code.
Answered(status, text) ==
    /\ Len(Responses) = 1
    /\ EvStatus(Responses[1]) = status
    /\ EvText(Responses[1]) = text

NoAnnotatorNoDatabase ==
    /\ EventsOf("annotate") = << >>
    /\ EventsOf("query") = << >>
    /\ EventsOf("ping") = << >>

OrderDetailsGet == hReq.kind = "getOrderDetails" /\ hReq.req.method = "GET"

\* A missing order_id gives 400 MISSING_ORDER_ID and one that is not an
\* unsigned 32-bit decimal 400 INVALID_ORDER_ID, without annotator or database.
OrderIDRejected ==
    OrderDetailsGet =>
        /\ hReq.req.orderID = "" =>
              Answered(StatusBadRequest, "MISSING_ORDER_ID") /\ NoAnnotatorNoDatabase
        /\ (hReq.req.orderID # "" /\ ~ParseUintOk(hReq.req.orderID, 32)) =>
              Answered(StatusBadRequest, "INVALID_ORDER_ID") /\ NoAnnotatorNoDatabase

\* C21 as stated: GET /api/v1/orders/details answers 200 or 404 for every
\* valid order_id, 404 ORDER_NOT_FOUND exactly when the query gave zero
\* rows and 200 with the rows otherwise; a missing or invalid order_id gives
\* 400 without annotator or database.
C21_ValidIdGives200Or404 ==
    /\ OrderIDRejected
    /\ (OrderDetailsGet /\ ParseUintOk(hReq.req.orderID, 32)) =>
          IF hReq.req.dbres = "empty"
          THEN Answered(StatusNotFound, "ORDER_NOT_FOUND")
          ELSE Answered(StatusOK, "order_details")

\* C21 amended: for a valid order_id the answer is 500 INTERNAL_ERROR when
\* the query, a scan or the row iteration fails, 404 ORDER_NOT_FOUND exactly
\* when the query succeeds with zero rows, and 200 with the rows otherwise; a
\* missing or invalid order_id gives 400 without annotator or database.
C21_ValidIdGives200Or404Or500 ==
    /\ OrderIDRejected
    /\ (OrderDetailsGet /\ ParseUintOk(hReq.req.orderID, 32)) =>
          /\ Len(EventsOf("query")) = 1
          /\ CASE hReq.req.dbres = "empty" -> Answered(StatusNotFound, "ORDER_NOT_FOUND")
               [] hReq.req.dbres = "rows"  -> Answered(StatusOK, "order_details")
               [] OTHER -> Answered(StatusInternalServerError, "INTERNAL_ERROR")

C21_Witness ==
    /\ OrderDetailsGet
    /\ hReq.req.orderID = "42"
    /\ hReq.req.dbres = "queryErr"
    /\ Answered(StatusInternalServerError, "INTERNAL_ERROR")

(***************************************************************************)
(* Claims about the annotator and the log decorator together.              *)
(***************************************************************************)

\* C22: whenever the annotator added a comment, the records logged under the
\* same context carry trace attributes, and their trace id and span id
\* strings are the trace-id and span-id segments of the comment's traceparent.
C22_LogAndCommentAgree ==
    CommentAdded =>
        LET fields == Split(EmbeddedTraceparent(BlockOf(result, query)), "-")
        IN  /\ Len(fields) = 4
            /\ Len(logSink) > 0
            /\ \A i \in 1..Len(logSink) :
                  /\ AttrValues(logSink[i], DefaultTraceIDKey) = {fields[2]}
                  /\ AttrValues(logSink[i], DefaultSpanIDKey) = {fields[3]}

(***************************************************************************)
(* Claims about the spans of the handlers.                                 *)
(***************************************************************************)

DirectHandlers ==
    { "getUserOrderAnalyticsDirect", "getProductStatsDirect", "getCategoryStatsDirect",
      "getOrderDetailsDirect" }

\* Span name is started before position i of hEvents.
StartedBefore(name, i) ==
    \E j \in 1..(i - 1) : EvKind(hEvents[j]) = "start" /\ EvSpan(hEvents[j]) = name

\* Span name is ended before position i of hEvents.
EndedBefore(name, i) ==
    \E j \in 1..(i - 1) : EvKind(hEvents[j]) = "end" /\ EvSpan(hEvents[j]) = name

OpenAt(name, i) ==
    IF name = ServerSpan THEN TRUE
    ELSE StartedBefore(name, i) /\ ~EndedBefore(name, i)

\* The span-id segment of the traceparent an annotator call wrote.
SpanSegment(e) == Split(EmbeddedTraceparent(BlockOf(EvText(e), EvArg(e))), "-")[3]

\* C23: the span id in a statement's traceparent is the id of the span that
\* is current in the context when the annotator is called: in the non-direct
\* handlers the "<name>.query" span, still open when the statement is sent; in
\* the Direct handlers the annotator runs before the "database/sql.query" span
\* is started and the traceparent never names that span.
C23_TraceparentNamesCurrentSpan ==
    \A i \in PositionsOf("annotate") :
        LET e == hEvents[i]
        IN  /\ EvText(e) # EvArg(e) =>
                  SpanSegment(e) = IDString(SpanIDOf(EvSpan(e)))
            /\ hReq.kind \notin DirectHandlers =>
                  /\ EvSpan(e) = hReq.kind \o ".query"
                  /\ \A q \in PositionsOf("query") : OpenAt(EvSpan(e), q)
            /\ hReq.kind \in DirectHandlers =>
                  /\ EvSpan(e) # DirectSpan
                  /\ ~StartedBefore(DirectSpan, i)
                  /\ EvText(e) # EvArg(e) =>
                        SpanSegment(e) # IDString(SpanIDOf(DirectSpan))

\* The parents the start events of hEvents give span name.
ParentsOf(name) ==
    { EvArg(hEvents[j]) : j \in { k \in PositionsOf("start") : EvSpan(hEvents[k]) = name } }

\* The spans names and what lies above them, n levels up.
RECURSIVE AncestorsOf(_, _)
AncestorsOf(names, n) ==
    IF n = 0 THEN names
    ELSE names \cup AncestorsOf(UNION { ParentsOf(x) : x \in names }, n - 1)

HandlerNamed == AnalyticsHandlers \cup {"health"}

\* C24: the context returned with the handler-named span is discarded: no
\* span started later in the handler has the handler-named span as parent or
\* ancestor, and no traceparent written into a statement names it or a span
\* below it.
C24_HandlerSpanHasNoChildren ==
    hReq.kind \in HandlerNamed =>
        /\ \A i \in PositionsOf("start") :
              EvSpan(hEvents[i]) # hReq.kind =>
                  hReq.kind \notin AncestorsOf({EvArg(hEvents[i])}, Len(hEvents))
        /\ \A i \in PositionsOf("annotate") :
              LET e == hEvents[i]
              IN  /\ hReq.kind \notin AncestorsOf({EvSpan(e)}, Len(hEvents))
                  /\ EvText(e) # EvArg(e) =>
                        SpanSegment(e) \notin
                            { IDString(SpanIDOf(hReq.kind)),
                              SprintfPaddedHex(16, SpanIDOf(hReq.kind)) }

C24_Witness ==
    /\ hReq.kind = "getOrderDetails"
    /\ hReq.req.sampled
    /\ Cardinality(PositionsOf("start")) = 4
    /\ \E i \in PositionsOf("annotate") : EvText(hEvents[i]) # EvArg(hEvents[i])
    /\ AncestorsOf({"getOrderDetails.prepare_response"}, Len(hEvents)) =
          { "getOrderDetails.prepare_response", "getOrderDetails.query",
            "getOrderDetails.validate_params", ServerSpan }

\* C25: spans are nested in time: whenever a handler starts a span, the span
\* carried by the context it starts from, its parent, has not ended yet.
C25_ParentOpenAtStart ==
    \A i \in PositionsOf("start") : OpenAt(EvArg(hEvents[i]), i)

\* The positions of the start, and of the end, events of span name.
StartsOf(name) == { i \in PositionsOf("start") : EvSpan(hEvents[i]) = name }

EndsOf(name) == { i \in PositionsOf("end") : EvSpan(hEvents[i]) = name }

SpansOf == { EvSpan(hEvents[i]) : i \in PositionsOf("start") \cup PositionsOf("end") }

\* C26: every span a handler starts is ended exactly once before the handler
\* returns, on every path: none is left open, none is ended twice, and none
\* is ended that was not started.
C26_EverySpanEndedOnce ==
    \A name \in SpansOf :
        /\ Cardinality(StartsOf(name)) = 1
        /\ Cardinality(EndsOf(name)) = 1
        /\ \A i \in StartsOf(name), j \in EndsOf(name) : i < j

C26_Witness ==
    /\ hReq.kind = "getOrderDetailsDirect"
    /\ hReq.req.dbres = "scanErr"
    /\ SpansOf = {"getOrderDetailsDirect", DirectSpan}
    /\ Answered(StatusInternalServerError, "INTERNAL_ERROR")
    /\ EvKind(hEvents[Len(hEvents)]) = "end"

\* The message of an error body.
EvMessage(e) == EvSpan(e)

\* C27: every handler invocation writes exactly one response, through one
\* call of sendError or sendSuccess, on every path: an error body has success
\* false, a code and a message, a success body has success true and the data;
\* no path writes a second response or returns without one.
C27_ExactlyOneResponse ==
    hReq.kind \in HandlerNamed =>
        /\ Len(Responses) = 1
        /\ LET r == Responses[1]
           IN  \/ /\ EvArg(r) = "error"
                  /\ EvStatus(r) \in { StatusBadRequest, StatusNotFound, StatusMethodNotAllowed,
                                       StatusInternalServerError, StatusServiceUnavailable }
                  /\ EvText(r) # ""
                  /\ EvMessage(r) # ""
               \/ /\ EvArg(r) = "success"
                  /\ EvStatus(r) = StatusOK
                  /\ EvText(r) # ""

C27_Witness ==
    /\ hReq.kind = "getCategoryStatsDirect"
    /\ hReq.req.method = "GET"
    /\ hReq.req.dbres = "empty"
    /\ Len(Responses) = 1
    /\ EvArg(Responses[1]) = "error"
    /\ EvMessage(Responses[1]) = "Failed to get statistics"

(***************************************************************************)
(* Claims about the pairs of the comment.                                  *)
(***************************************************************************)

\* C28: whenever the annotator is called under an active span it adds a
\* comment; the comment holds dddbs, ddps, ddpv and traceparent with
\* non-empty values, dddbs and ddps both the service name ("otel-go-dbm" when
\* OTEL_SERVICE_NAME is unset or empty), ddpv 1.0.0; only dde can be missing.
C28_RequiredPairsPresent ==
    (Called /\ ctx.recording) =>
        LET svc == IF environ["OTEL_SERVICE_NAME"] = "" THEN "otel-go-dbm"
                   ELSE environ["OTEL_SERVICE_NAME"]
            w   == escapeSQLCommentValue(svc)
            b   == BlockOf(result, query)
            tp  == EmbeddedTraceparent(b)
        IN  /\ result # query
            /\ PrependedTo(result, query)
            /\ svc # "" /\ w # "" /\ tp # ""
            /\ \E dde \in {"", "dde='" \o escapeSQLCommentValue(ResolveEnv(environ)) \o "',"} :
                  b = "/*dddbs='" \o w \o "'," \o dde \o "ddps='" \o w
                      \o "',ddpv='1.0.0',traceparent='" \o tp \o "'*/"

C28_Witness ==
    /\ CommentAdded
    /\ environ["OTEL_SERVICE_NAME"] = ""
    /\ ResolveEnv(environ) = ""
    /\ HasPrefix(result,
                 "/*dddbs='otel-go-dbm',ddps='otel-go-dbm',ddpv='1.0.0',traceparent='00-")

(***************************************************************************)
(* Claims about the methods and the direct routes.                         *)
(***************************************************************************)

\* The request is for a Direct endpoint.
DirectEndpointRequested ==
    \/ hReq.kind \in DirectHandlers
    \/ hReq.kind = "NotFound" /\ hReq.path \in DirectPaths

\* A handler that got a request with another method than GET answers 405
\* without annotator, ping or query.
OnlyGetHandled ==
    (hReq.kind \in HandlerNamed /\ hReq.req.method # "GET") =>
        Answered(StatusMethodNotAllowed, "METHOD_NOT_ALLOWED") /\ NoAnnotatorNoDatabase

\* C29: every endpoint accepts only GET and answers another method with 405
\* METHOD_NOT_ALLOWED, without annotator, ping or query; a Direct endpoint
\* whose direct connection was not initialized answers 503
\* SERVICE_UNAVAILABLE before starting a span or touching the database.
C29_OnlyGetAnd503WhenUninitialized ==
    /\ OnlyGetHandled
    /\ (DirectEndpointRequested /\ ~dbDirectInitialized) =>
          /\ Answered(StatusServiceUnavailable, "SERVICE_UNAVAILABLE")
          /\ PositionsOf("start") = {}
          /\ NoAnnotatorNoDatabase

====
